---- MODULE Spec2Model ----
(***************************************************************************)
(* Model of the winner determiner of poker-moons: rankHand classifies and  *)
(* scores one five-card hand, compareHands orders the players of a round.  *)
(*                                                                         *)
(* A Rank is a string of decimal digits ('2' .. '14') in the source; here  *)
(* it is the sequence of its digits, so that parseInt, Number and the      *)
(* string concatenation of the 'pair' branch are modelled by what they do. *)
(***************************************************************************)
EXTENDS Integers, Sequences, FiniteSets

VARIABLES
    fn,        \* the function called: "rankHand" or "compareHands"
    players,   \* its argument: the list of players (rankHand: one player)
    pc,        \* "call" before the function has run, "return" after
    locals,    \* the local variables of rankHand at its return, else null
    result     \* the outcome of the call, null before it

vars == <<fn, players, pc, locals, result>>

(***************************************************************************)
(* Values                                                                  *)
(***************************************************************************)
\* null: the value without fields or elements.
Null == << >>
IsNull(v) == DOMAIN v = {}

\* Keys of the `suits` record in insertion order.
SuitKeys == <<"clubs", "diamonds", "hearts", "spades">>

\* Keys of the `ranks` record in the order Object.keys / Object.values give
\* them; the keys are integer-like, so the order is ascending numeric.
RankKeys ==
    << <<2>>, <<3>>, <<4>>, <<5>>, <<6>>, <<7>>, <<8>>, <<9>>,
       <<1, 0>>, <<1, 1>>, <<1, 2>>, <<1, 3>>, <<1, 4>> >>

\* The keys with 'full house' written before 'four of a kind'.
CategoryKeysFullHouseFirst ==
    << "royal flush", "straight flush", "full house", "four of a kind",
       "flush", "straight", "three of a kind", "two pairs", "pair",
       "high card", "win via fold" >>

\* Keys of categoryMap in insertion order (the priority order of the walk).
CategoryKeys ==
    << "royal flush", "straight flush", "four of a kind", "full house",
       "flush", "straight", "three of a kind", "two pairs", "pair",
       "high card", "win via fold" >>

SeqToSet(s) == {s[i] : i \in 1..Len(s)}

\* parseInt / Number of a string of decimal digits.
RECURSIVE ParseInt(_)
ParseInt(str) ==
    IF Len(str) = 0 THEN 0
    ELSE 10 * ParseInt(SubSeq(str, 1, Len(str) - 1)) + str[Len(str)]

\* Array.prototype.findIndex: 0-based index of the first element that
\* satisfies the test, -1 when there is none.
\* `tests` holds the outcome of the callback for every element.
FindIndex(tests) ==
    IF \E i \in 1..Len(tests) : tests[i]
    THEN (CHOOSE i \in 1..Len(tests) :
              tests[i] /\ \A j \in 1..(i - 1) : ~tests[j]) - 1
    ELSE -1

\* Slice with the end index taken one too low.
SliceOffByOne(arr, start, end) ==
    LET len  == Len(arr)
        from == IF start < 0 THEN (IF len + start < 0 THEN 0 ELSE len + start)
                ELSE IF start > len THEN len ELSE start
        to   == IF end - 1 < 0 THEN (IF len + end - 1 < 0 THEN 0 ELSE len + end - 1)
                ELSE IF end - 1 > len THEN len ELSE end - 1
    IN  IF from >= to THEN << >> ELSE SubSeq(arr, from + 1, to)

\* Array.prototype.slice(start, end) with 0-based, end-exclusive indices; a
\* negative index counts from the end, an index past the end is clamped.
SliceIndex(len, k) ==
    IF k < 0 THEN (IF len + k < 0 THEN 0 ELSE len + k)
    ELSE IF k > len THEN len ELSE k

Slice(arr, start, end) ==
    LET from == SliceIndex(Len(arr), start)
        to   == SliceIndex(Len(arr), end)
    IN  IF from >= to THEN << >> ELSE SubSeq(arr, from + 1, to)

\* Array.prototype.filter: the elements that satisfy the test, in order;
\* `tests` holds the outcome of the callback for every element.
RECURSIVE Filter(_, _)
Filter(arr, tests) ==
    IF Len(arr) = 0 THEN << >>
    ELSE IF Head(tests) THEN <<Head(arr)>> \o Filter(Tail(arr), Tail(tests))
    ELSE Filter(Tail(arr), Tail(tests))

\* Array.prototype.some; `tests` holds the outcome of the callback for
\* every element.
Some(tests) == \E i \in 1..Len(tests) : tests[i]

\* Math.max of a non-empty list of numbers.
MathMax(arr) ==
    CHOOSE m \in SeqToSet(arr) : \A x \in SeqToSet(arr) : x <= m

\* keys.reduce((a, b) => a + b) on strings: concatenation, left to right.
RECURSIVE ReduceConcat(_)
ReduceConcat(arr) ==
    IF Len(arr) = 1 THEN arr[1]
    ELSE ReduceConcat(SubSeq(arr, 1, Len(arr) - 1)) \o arr[Len(arr)]

(***************************************************************************)
(* rankHand                                                                *)
(***************************************************************************)
\* Using a zero index, the ten card is at index 8 of Object.values(ranks).
TEN_CARD_POSITION == 8

\* hand.forEach(card => { suits[card.suit] += 1 }) from the all-zero record.
RECURSIVE TallySuits(_, _)
TallySuits(hand, suits) ==
    IF Len(hand) = 0 THEN suits
    ELSE TallySuits(Tail(hand),
             [suits EXCEPT ![Head(hand).suit] = @ + 1])

\* hand.forEach(card => { ranks[card.rank] += 1 }) from the all-zero record.
RECURSIVE TallyRanks(_, _)
TallyRanks(hand, ranks) ==
    IF Len(hand) = 0 THEN ranks
    ELSE TallyRanks(Tail(hand),
             [ranks EXCEPT ![Head(hand).rank] = @ + 1])

ZeroSuits == [s \in SeqToSet(SuitKeys) |-> 0]
ZeroRanks == [r \in SeqToSet(RankKeys) |-> 0]

\* Object.values(ranks) and Object.values(suits)
RankValues(ranks) == [i \in 1..Len(RankKeys) |-> ranks[RankKeys[i]]]
SuitValues(suits) == [i \in 1..Len(SuitKeys) |-> suits[SuitKeys[i]]]

\* The callbacks (count) => count === n and Boolean, applied to every
\* element of a list of counts.
CountIs(counts, n) == [i \in 1..Len(counts) |-> counts[i] = n]
Truthy(counts)     == [i \in 1..Len(counts) |-> counts[i] # 0]

FirstCardIndex(ranks) == FindIndex(CountIs(RankValues(ranks), 1))

FourOfAKindFlag(ranks) == Some(CountIs(RankValues(ranks), 4))

FullHouseFlag(ranks) ==
    Len(Filter(RankValues(ranks), Truthy(RankValues(ranks)))) = 2

FlushFlag(suits) == Some(CountIs(SuitValues(suits), 5))

StraightFlag(ranks, firstCardIndex) ==
    LET window == Slice(RankValues(ranks), firstCardIndex, firstCardIndex + 5)
    IN  Len(Filter(window, CountIs(window, 1))) = 5

ThreeOfAKindFlag(ranks) == Some(CountIs(RankValues(ranks), 3))

TwoPairsFlag(ranks) ==
    Len(Filter(RankValues(ranks), CountIs(RankValues(ranks), 2))) = 2

PairFlag(ranks) ==
    Len(Filter(RankValues(ranks), CountIs(RankValues(ranks), 2))) = 1

HighCardFlag == TRUE

StraightFlushFlag(suits, ranks, firstCardIndex) ==
    FlushFlag(suits) /\ StraightFlag(ranks, firstCardIndex)

\* The royal flush flag without the test of the anchor.
RoyalFlushFlagNoAnchor(suits, ranks, firstCardIndex) ==
    StraightFlushFlag(suits, ranks, firstCardIndex)

RoyalFlushFlag(suits, ranks, firstCardIndex) ==
    StraightFlushFlag(suits, ranks, firstCardIndex)
        /\ firstCardIndex = TEN_CARD_POSITION

\* categoryMap after the two assignments that follow its literal.
CategoryMap(suits, ranks, firstCardIndex) ==
    [key \in SeqToSet(CategoryKeys) |->
        CASE key = "royal flush"     -> RoyalFlushFlag(suits, ranks, firstCardIndex)
          [] key = "straight flush"  -> StraightFlushFlag(suits, ranks, firstCardIndex)
          [] key = "four of a kind"  -> FourOfAKindFlag(ranks)
          [] key = "full house"      -> FullHouseFlag(ranks)
          [] key = "flush"           -> FlushFlag(suits)
          [] key = "straight"        -> StraightFlag(ranks, firstCardIndex)
          [] key = "three of a kind" -> ThreeOfAKindFlag(ranks)
          [] key = "two pairs"       -> TwoPairsFlag(ranks)
          [] key = "pair"            -> PairFlag(ranks)
          [] key = "high card"       -> HighCardFlag
          [] key = "win via fold"    -> FALSE]

\* Object.keys(categoryMap).every((key, index) => { score = 1000 - index*100;
\* category = key; return !categoryMap[key] }): the callback runs on the keys
\* in order until it returns false; `index` is the 0-based position.
RECURSIVE Walk(_, _, _)
Walk(categoryMap, index, last) ==
    IF index >= Len(CategoryKeys) THEN last
    ELSE LET key  == CategoryKeys[index + 1]
             here == [score |-> 1000 - index * 100, category |-> key]
         IN  IF categoryMap[key] THEN here
             ELSE Walk(categoryMap, index + 1, here)

\* The walk with the callback returning categoryMap[key] instead of its
\* negation: it stops at the first false flag.
RECURSIVE WalkInverted(_, _, _)
WalkInverted(categoryMap, index, last) ==
    IF index >= Len(CategoryKeys) THEN last
    ELSE LET key  == CategoryKeys[index + 1]
             here == [score |-> 1000 - index * 100, category |-> key]
         IN  IF ~categoryMap[key] THEN here
             ELSE WalkInverted(categoryMap, index + 1, here)

SelectCategoryInverted(categoryMap) ==
    WalkInverted(categoryMap, 0, [score |-> 0, category |-> ""])

SelectCategory(categoryMap) ==
    Walk(categoryMap, 0, [score |-> 0, category |-> ""])

\* hand.forEach(card => { score += parseInt(card.rank) })
RECURSIVE SumCardRanks(_)
SumCardRanks(hand) ==
    IF Len(hand) = 0 THEN 0
    ELSE ParseInt(Head(hand).rank) + SumCardRanks(Tail(hand))

\* Object.keys(ranks).filter(key => ranks[key] === n)
KeysWithCount(ranks, n) ==
    Filter(RankKeys, [i \in 1..Len(RankKeys) |-> ranks[RankKeys[i]] = n])

\* Object.keys(ranks).filter(key => ranks[key] === 1).map(Number)
KickerCandidates(ranks) ==
    LET keys == KeysWithCount(ranks, 1)
    IN  [i \in 1..Len(keys) |-> ParseInt(keys[i])]

\* The chain with the 'pair' branch adding the paired rank once.
CardValuesPairOnce(category, hand, ranks) ==
    CASE category \in {"royal flush", "straight flush", "full house",
                       "flush", "straight"} ->
            SumCardRanks(hand)
      [] category = "four of a kind" ->
            ParseInt(KeysWithCount(ranks, 4)[1]) * 4
      [] category = "three of a kind" ->
            ParseInt(KeysWithCount(ranks, 3)[1]) * 3
      [] category = "two pairs" ->
            LET keys == KeysWithCount(ranks, 2)
            IN  ParseInt(keys[1]) * 2 + ParseInt(keys[2]) * 2
      [] category = "pair" ->
            ParseInt(ReduceConcat(KeysWithCount(ranks, 2)))
      [] OTHER -> 0

\* The amount the first if / else-if chain adds to the score.
CardValues(category, hand, ranks) ==
    CASE category \in {"royal flush", "straight flush", "full house",
                       "flush", "straight"} ->
            SumCardRanks(hand)
      [] category = "four of a kind" ->
            ParseInt(KeysWithCount(ranks, 4)[1]) * 4
      [] category = "three of a kind" ->
            ParseInt(KeysWithCount(ranks, 3)[1]) * 3
      [] category = "two pairs" ->
            LET keys == KeysWithCount(ranks, 2)
            IN  ParseInt(keys[1]) * 2 + ParseInt(keys[2]) * 2
      [] category = "pair" ->
            ParseInt(ReduceConcat(KeysWithCount(ranks, 2))) * 2
      [] OTHER -> 0

\* The kicker branch without 'high card'.
KickerNoHighCard(category, ranks) ==
    IF category \in {"two pairs", "pair"}
    THEN MathMax(KickerCandidates(ranks))
    ELSE 0

\* The amount the kicker branch adds to the score.
Kicker(category, ranks) ==
    IF category \in {"two pairs", "pair", "high card"}
    THEN MathMax(KickerCandidates(ranks))
    ELSE 0

\* The local variables of rankHand at its return statement, for a player
\* whose hand is not null.
RankHandLocals(player) ==
    LET suits          == TallySuits(player.hand, ZeroSuits)
        ranks          == TallyRanks(player.hand, ZeroRanks)
        firstCardIndex == FirstCardIndex(ranks)
        categoryMap    == CategoryMap(suits, ranks, firstCardIndex)
        selected       == SelectCategory(categoryMap)
        cardValues     == CardValues(selected.category, player.hand, ranks)
        kicker         == Kicker(selected.category, ranks)
    IN  [suits          |-> suits,
         ranks          |-> ranks,
         firstCardIndex |-> firstCardIndex,
         categoryMap    |-> categoryMap,
         base           |-> selected.score,
         category       |-> selected.category,
         score          |-> selected.score + cardValues + kicker]

\* The outcome of a call: the value it returns or the exception it throws.
Return(v) == [kind |-> "return", value |-> v]
Throw(e)  == [kind |-> "throw", value |-> e]
IsThrow(outcome) == outcome.kind = "throw"

InternalServerErrorException ==
    [name    |-> "InternalServerErrorException",
     message |-> "Attempting to rank a non-existant hand!"]

\* rankHand(player): throws for a null hand, else returns
\* { player, category, score }.
RankHandFn(player) ==
    IF IsNull(player.hand) THEN Throw(InternalServerErrorException)
    ELSE LET l == RankHandLocals(player)
         IN  Return([player   |-> player,
                     category |-> l.category,
                     score    |-> l.score])

(***************************************************************************)
(* compareHands                                                            *)
(***************************************************************************)
\* The comparator with its operands exchanged: ascending scores.
CompareFnAscending(handA, handB) == handA.score - handB.score

\* The comparator of the sort: (handA, handB) => handB.score - handA.score
CompareFn(handA, handB) == handB.score - handA.score

\* Array.prototype.sort is stable (ECMAScript 2019, Node 14): an element
\* moves in front of another only when the comparator puts it strictly
\* first.  Insert x (which followed every element of `sorted` in the
\* original order) after the last element it is not strictly in front of.
\* An insertion that also passes the elements of equal score (not stable).
RECURSIVE InsertBeforeEqual(_, _)
InsertBeforeEqual(sorted, x) ==
    IF Len(sorted) = 0 THEN <<x>>
    ELSE LET last == sorted[Len(sorted)]
         IN  IF CompareFn(last, x) < 0 THEN Append(sorted, x)
             ELSE Append(InsertBeforeEqual(SubSeq(sorted, 1, Len(sorted) - 1), x),
                         last)

RECURSIVE Insert(_, _)
Insert(sorted, x) ==
    IF Len(sorted) = 0 THEN <<x>>
    ELSE LET last == sorted[Len(sorted)]
         IN  IF CompareFn(last, x) <= 0 THEN Append(sorted, x)
             ELSE Append(Insert(SubSeq(sorted, 1, Len(sorted) - 1), x), last)

RECURSIVE SortHands(_)
SortHands(arr) ==
    IF Len(arr) = 0 THEN << >>
    ELSE Insert(SortHands(SubSeq(arr, 1, Len(arr) - 1)), arr[Len(arr)])

\* A map that leaves out the players rankHand throws for.
MapRankHandSkipNull(ps) ==
    LET kept == Filter(ps, [i \in 1..Len(ps) |-> ~IsNull(ps[i].hand)])
    IN  Return([i \in 1..Len(kept) |-> RankHandFn(kept[i]).value])

\* players.map(player => rankHand(player)): the first exception thrown by
\* the callback ends the map and is the outcome of the whole call.
MapRankHand(ps) ==
    LET ranked == [i \in 1..Len(ps) |-> RankHandFn(ps[i])]
    IN  IF \E i \in 1..Len(ps) : IsThrow(ranked[i])
        THEN ranked[CHOOSE i \in 1..Len(ps) :
                        IsThrow(ranked[i])
                            /\ \A j \in 1..(i - 1) : ~IsThrow(ranked[j])]
        ELSE Return([i \in 1..Len(ps) |-> ranked[i].value])

\* compareHands without the shortcut for a single player.
CompareHandsNoFold(ps) ==
    LET mapped == MapRankHand(ps)
    IN  IF IsThrow(mapped) THEN mapped
        ELSE Return(SortHands(mapped.value))

CompareHandsFn(ps) ==
    IF Len(ps) = 1
    THEN Return(<< [player   |-> ps[1],
                    category |-> "win via fold",
                    score    |-> 10000] >>)
    ELSE LET mapped == MapRankHand(ps)
         IN  IF IsThrow(mapped) THEN mapped
             ELSE Return(SortHands(mapped.value))

(***************************************************************************)
(* Inputs                                                                  *)
(***************************************************************************)
\* Largest number of players handed to compareHands.
MaxPlayers == 3

Card(r, s) == [rank |-> RankKeys[r], suit |-> SuitKeys[s]]

\* The 52 cards of the deck, numbered 0 .. 51 by ascending rank, then suit.
DeckCard(c) == Card((c \div Len(SuitKeys)) + 1, (c % Len(SuitKeys)) + 1)
DeckSize == Len(RankKeys) * Len(SuitKeys)

SuitIndex(c) == (c % Len(SuitKeys)) + 1

\* The cards that may follow the cards cs (deck numbers, ascending): a higher
\* card whose suit is one already present or the first suit not yet present.
\* Every hand of five distinct cards is one of these after a renaming of the
\* suits and a reordering of its cards.
NextCards(cs) ==
    IF Len(cs) = 0 THEN {c \in 0..(DeckSize - 1) : SuitIndex(c) = 1}
    ELSE LET seen == {SuitIndex(cs[i]) : i \in 1..Len(cs)}
         IN  {c \in (cs[Len(cs)] + 1)..(DeckSize - 1) :
                 \A s \in 1..(SuitIndex(c) - 1) : s \in seen}

\* The hand made of the cards numbered cs.
DeckHand(cs) == [i \in 1..Len(cs) |-> DeckCard(cs[i])]

\* Hands of the documentation: the two hands of the comment of rankHand, a
\* third pair of fours with the score of the first, and one hand each of
\* some other categories.
Hand1 == << Card(3, 1), Card(3, 2), Card(6, 3), Card(1, 1), Card(8, 4) >>
Hand2 == << Card(3, 4), Card(3, 3), Card(6, 3), Card(1, 1), Card(10, 4) >>
Hand3 == << Card(3, 4), Card(3, 3), Card(6, 2), Card(1, 2), Card(8, 1) >>
FlushHand == << Card(1, 3), Card(4, 3), Card(8, 3), Card(10, 3), Card(12, 3) >>
TwoPairsHand == << Card(1, 1), Card(1, 4), Card(4, 2), Card(4, 3), Card(8, 2) >>
WheelHand == << Card(13, 4), Card(1, 2), Card(2, 2), Card(3, 1), Card(4, 3) >>
RoyalHand == << Card(13, 2), Card(12, 2), Card(11, 2), Card(10, 2), Card(9, 2) >>

PoolHands ==
    {Hand1, Hand2, Hand3, FlushHand, TwoPairsHand, WheelHand, RoyalHand}

\* A player of the round: its identity and its hand (or null).
Player(id, hand) == [id |-> id, hand |-> hand]

PoolPlayers == {Player(1, h) : h \in PoolHands \cup {Null}}

PlayerLists ==
    UNION { { [i \in 1..n |-> Player(i, hs[i])] :
                hs \in [1..n -> PoolHands \cup {Null}] } : n \in 1..MaxPlayers }

(***************************************************************************)
(* State machine: one call of rankHand or of compareHands                  *)
(***************************************************************************)
InitRank ==
    /\ fn = "rankHand"
    /\ \/ \E c1 \in NextCards(<< >>) :
          \E c2 \in NextCards(<<c1>>) :
          \E c3 \in NextCards(<<c1, c2>>) :
          \E c4 \in NextCards(<<c1, c2, c3>>) :
          \E c5 \in NextCards(<<c1, c2, c3, c4>>) :
             players = << Player(1, DeckHand(<<c1, c2, c3, c4, c5>>)) >>
       \/ \E p \in PoolPlayers : players = <<p>>
    /\ pc = "call"
    /\ locals = Null
    /\ result = Null

InitCompare ==
    /\ \/ /\ fn = "compareHands"
          /\ players \in PlayerLists
       \/ /\ fn = "rankHand"
          /\ \E p \in PoolPlayers : players = <<p>>
    /\ pc = "call"
    /\ locals = Null
    /\ result = Null

\* rankHand(players[0])
RankHand ==
    /\ fn = "rankHand"
    /\ pc = "call"
    /\ pc' = "return"
    /\ result' = RankHandFn(players[1])
    /\ locals' = IF IsNull(players[1].hand) THEN Null
                 ELSE RankHandLocals(players[1])
    /\ UNCHANGED <<fn, players>>

\* compareHands(players)
CompareHands ==
    /\ fn = "compareHands"
    /\ pc = "call"
    /\ pc' = "return"
    /\ result' = CompareHandsFn(players)
    /\ UNCHANGED <<fn, players, locals>>

NextRank == RankHand

NextCompare == CompareHands \/ RankHand

SpecRank == InitRank /\ [][NextRank]_vars

SpecCompare == InitCompare /\ [][NextCompare]_vars

(***************************************************************************)
(* Vocabulary of the properties                                            *)
(***************************************************************************)
\* rankHand has returned a ranking of the hand of players[1].
Ranked == fn = "rankHand" /\ pc = "return" /\ ~IsThrow(result)

\* compareHands has run on the list `players`.
Compared == fn = "compareHands" /\ pc = "return"

TheHand == players[1].hand

\* The number a rank stands for: its position among the ranks 2 .. 14.
RankNumber(rank) == 1 + (CHOOSE i \in 1..Len(RankKeys) : RankKeys[i] = rank)

\* How many cards of the hand have the rank number r.
CountOf(hand, r) ==
    Cardinality({i \in 1..Len(hand) : RankNumber(hand[i].rank) = r})

RankNumbers(hand) == {RankNumber(hand[i].rank) : i \in 1..Len(hand)}

\* The sizes of the groups of equal rank, e.g. {3, 2} for a full house.
Split(hand) == {CountOf(hand, r) : r \in RankNumbers(hand)}

\* The rank numbers that occur exactly n times.
RanksOfCount(hand, n) == {r \in RankNumbers(hand) : CountOf(hand, r) = n}

SameSuit(hand) == \A i \in 1..Len(hand) : hand[i].suit = hand[1].suit

\* The sum of the rank numbers of the cards of rank number r or lower.
RECURSIVE RankSumUpTo(_, _)
RankSumUpTo(hand, r) ==
    IF r < 2 THEN 0
    ELSE r * CountOf(hand, r) + RankSumUpTo(hand, r - 1)

MaxOfSet(S) == CHOOSE m \in S : \A x \in S : x <= m
MinOfSet(S) == CHOOSE m \in S : \A x \in S : m <= x

\* The sum of the rank numbers of all cards of the hand.
RankSum(hand) == RankSumUpTo(hand, 14)

\* The hand holds exactly the rank numbers of the list rs, with multiplicity.
HasRanks(hand, rs) ==
    /\ Len(hand) = Len(rs)
    /\ \A r \in 2..14 :
          CountOf(hand, r) = Cardinality({i \in 1..Len(rs) : rs[i] = r})

\* The ten categories of a hand in priority order.
PriorityOrder ==
    << "royal flush", "straight flush", "four of a kind", "full house",
       "flush", "straight", "three of a kind", "two pairs", "pair",
       "high card" >>

PriorityIndex(category) ==
    (CHOOSE i \in 1..Len(PriorityOrder) : PriorityOrder[i] = category) - 1

BaseOf(category) == 1000 - 100 * PriorityIndex(category)

(***************************************************************************)
(* Properties of rankHand (SpecRank)                                       *)
(***************************************************************************)
\* C5: rankHand returns the first category of the priority order whose flag
\* is true in categoryMap, the score set by the walk is 1000 - 100 * (its
\* 0-based index), and the category is never 'win via fold' nor ''.
C5_FirstTrueCategory ==
    Ranked =>
        /\ \E i \in 1..Len(PriorityOrder) :
              /\ result.value.category = PriorityOrder[i]
              /\ locals.categoryMap[PriorityOrder[i]]
              /\ \A j \in 1..(i - 1) : ~locals.categoryMap[PriorityOrder[j]]
              /\ locals.base = 1000 - 100 * (i - 1)
        /\ locals.category = result.value.category
        /\ result.value.category \notin {"win via fold", ""}

\* The walk has passed nine false flags and stopped at 'high card'.
C5_Witness ==
    /\ Ranked
    /\ result.value.category = "high card"
    /\ locals.base = 100
    /\ \A i \in 1..9 : ~locals.categoryMap[PriorityOrder[i]]

\* The tiebreak of a category, from the rank numbers of the hand.
KickerOf(hand) == MaxOfSet(RanksOfCount(hand, 1))

TiebreakOf(category, hand) ==
    CASE category \in {"royal flush", "straight flush", "full house",
                       "flush", "straight"} -> RankSum(hand)
      [] category = "four of a kind" ->
            4 * MaxOfSet(RanksOfCount(hand, 4))
      [] category = "three of a kind" ->
            3 * MaxOfSet(RanksOfCount(hand, 3))
      [] category = "two pairs" ->
            2 * (MaxOfSet(RanksOfCount(hand, 2)) + MinOfSet(RanksOfCount(hand, 2)))
                + KickerOf(hand)
      [] category = "pair" ->
            2 * MaxOfSet(RanksOfCount(hand, 2)) + KickerOf(hand)
      [] category = "high card" -> KickerOf(hand)

\* C6: the score is the base of the selected category plus its tiebreak, and
\* the worked examples have the scores 217, 219, 640, 323 and 800 + 4r.
C6_ScoreIsBasePlusTiebreak ==
    Ranked =>
        LET category == result.value.category
            score    == result.value.score
        IN  /\ category \in SeqToSet(PriorityOrder)
            /\ score = BaseOf(category) + TiebreakOf(category, TheHand)
            /\ HasRanks(TheHand, <<4, 4, 7, 2, 9>>) => score = 217
            /\ HasRanks(TheHand, <<4, 4, 7, 2, 11>>) => score = 219
            /\ HasRanks(TheHand, <<2, 5, 9, 11, 13>>) /\ SameSuit(TheHand)
                  => score = 640
            /\ HasRanks(TheHand, <<2, 2, 5, 5, 9>>) => score = 323
            /\ \A r \in 2..14 : CountOf(TheHand, r) = 4 => score = 800 + 4 * r

\* The first hand of the comment of rankHand has been scored 217.
C6_Witness ==
    /\ Ranked
    /\ TheHand = Hand1
    /\ result.value.category = "pair"
    /\ result.value.score = 217

\* C7: 'royal flush' is returned exactly for the one-suit hands of ranks
\* 10 .. 14, with score 1060; every other one-suit run of five consecutive
\* ranks is returned as 'straight flush' with score 900 + sum of its ranks.
C7_RoyalFlush ==
    Ranked =>
        LET category == result.value.category
            score    == result.value.score
            royal    == SameSuit(TheHand) /\ RankNumbers(TheHand) = 10..14
        IN  /\ category = "royal flush" <=> royal
            /\ royal => score = 1060
            /\ \A r \in 2..9 :
                  SameSuit(TheHand) /\ RankNumbers(TheHand) = r..(r + 4) =>
                      /\ category = "straight flush"
                      /\ score = 900 + RankSum(TheHand)

\* The highest straight flush that is not royal: 9 .. 13 of one suit.
C7_Witness ==
    /\ Ranked
    /\ SameSuit(TheHand)
    /\ RankNumbers(TheHand) = 9..13
    /\ result.value.category = "straight flush"
    /\ result.value.score = 955

\* C8: the tiebreak is in 1 .. 99, so the score is in base + 1 .. base + 99
\* of the returned category, above every score of a lower category, below
\* every score of a higher one, and below the fold score 10000.
C8_TiebreakBelowHundred ==
    Ranked =>
        LET category == result.value.category
            score    == result.value.score
        IN  /\ category \in SeqToSet(PriorityOrder)
            /\ score - BaseOf(category) \in 1..99
            /\ score - locals.base \in 1..99
            /\ \A other \in SeqToSet(PriorityOrder) :
                  /\ PriorityIndex(other) > PriorityIndex(category)
                        => score > BaseOf(other) + 99
                  /\ PriorityIndex(other) < PriorityIndex(category)
                        => score < BaseOf(other) + 1
            /\ score < 10000

\* The largest tiebreak: three aces and two kings, 3 * 14 + 2 * 13 = 68.
C8_Witness ==
    /\ Ranked
    /\ result.value.category = "full house"
    /\ result.value.score = 768

\* C9: the straight flag is true exactly when the five ranks are distinct
\* and form a run r .. r+4 with 2 <= r <= 10; the anchor is the lowest rank
\* of count 1 (none: index -1); 14, 2, 3, 4, 5 is 'high card' 114 or
\* 'flush' 628; no flag without a rank of count 1 or with an anchor
\* above 10.
C9_Straight ==
    Ranked =>
        LET singles == RanksOfCount(TheHand, 1)
            run     == \E r \in 2..10 : RankNumbers(TheHand) = r..(r + 4)
            wheel   == RankNumbers(TheHand) = {14, 2, 3, 4, 5}
        IN  /\ locals.categoryMap["straight"] <=> run
            /\ locals.firstCardIndex =
                  (IF singles = {} THEN -1 ELSE MinOfSet(singles) - 2)
            /\ wheel => ~locals.categoryMap["straight"]
            /\ wheel /\ ~SameSuit(TheHand) =>
                  /\ result.value.category = "high card"
                  /\ result.value.score = 114
            /\ wheel /\ SameSuit(TheHand) =>
                  /\ result.value.category = "flush"
                  /\ result.value.score = 628
            /\ singles = {} => ~locals.categoryMap["straight"]
            /\ locals.firstCardIndex > 8 => ~locals.categoryMap["straight"]

\* A straight of several suits with the anchor 5 at index 3.
C9_Witness ==
    /\ Ranked
    /\ RankNumbers(TheHand) = 5..9
    /\ ~SameSuit(TheHand)
    /\ locals.categoryMap["straight"]
    /\ locals.firstCardIndex = 3
    /\ result.value.category = "straight"

\* C10: 'full house' is returned exactly for the split 3+2; a split 4+1 sets
\* the full-house flag but is returned as 'four of a kind'; a split 3+1+1 is
\* returned as 'three of a kind'.
C10_FullHouse ==
    Ranked =>
        LET category == result.value.category
            fourOne  == \E r \in 2..14 : CountOf(TheHand, r) = 4
            threeTwo == /\ \E r \in 2..14 : CountOf(TheHand, r) = 3
                        /\ \E r \in 2..14 : CountOf(TheHand, r) = 2
            threeOneOne == /\ \E r \in 2..14 : CountOf(TheHand, r) = 3
                           /\ Cardinality(RanksOfCount(TheHand, 1)) = 2
        IN  /\ category = "full house" <=> threeTwo
            /\ fourOne => /\ locals.categoryMap["full house"]
                          /\ category = "four of a kind"
            /\ threeOneOne => category = "three of a kind"

\* A split 4+1: the full-house flag is set, 'four of a kind' is returned.
C10_Witness ==
    /\ Ranked
    /\ Split(TheHand) = {4, 1}
    /\ locals.categoryMap["full house"]
    /\ locals.categoryMap["four of a kind"]
    /\ result.value.category = "four of a kind"

(***************************************************************************)
(* Properties of compareHands (SpecCompare)                                *)
(***************************************************************************)
AllHaveHands(ps) == \A i \in 1..Len(ps) : ~IsNull(ps[i].hand)

\* The (category, score) pairs of a ranking, in order.
Pairs(ranking) ==
    [k \in 1..Len(ranking) |->
        <<ranking[k].category, ranking[k].score>>]

\* The players a ranking gives the score s.
PlayersOfScore(ranking, s) ==
    {ranking[k].player : k \in {j \in 1..Len(ranking) : ranking[j].score = s}}

\* The rearrangements of the list ps.
Permutations(ps) ==
    LET n == Len(ps)
        bijections == {f \in [1..n -> 1..n] : \A i, j \in 1..n :
                                                 f[i] = f[j] => i = j}
    IN  {[i \in 1..n |-> ps[f[i]]] : f \in bijections}

\* C1: for a list of one player compareHands returns one result: that
\* player, 'win via fold', 10000, whatever the hand (five cards or null);
\* nothing is thrown.
C1_WinViaFold ==
    Compared /\ Len(players) = 1 =>
        /\ ~IsThrow(result)
        /\ Len(result.value) = 1
        /\ result.value[1].player = players[1]
        /\ result.value[1].category = "win via fold"
        /\ result.value[1].score = 10000

\* A single player without a hand has won via fold.
C1_Witness ==
    /\ Compared
    /\ Len(players) = 1
    /\ IsNull(players[1].hand)
    /\ ~IsThrow(result)
    /\ result.value[1].category = "win via fold"

\* C2: for two or more players with hands compareHands returns one result
\* per player, each player once with the category and score rankHand gives
\* it, in descending order of score.
C2_SortedDescending ==
    Compared /\ Len(players) >= 2 /\ AllHaveHands(players) =>
        /\ ~IsThrow(result)
        /\ Len(result.value) = Len(players)
        /\ \A i \in 1..Len(players) :
              LET at == {k \in 1..Len(result.value) :
                            result.value[k].player = players[i]}
              IN  /\ Cardinality(at) = 1
                  /\ \A k \in at : result.value[k] = RankHandFn(players[i]).value
        /\ \A k \in 1..(Len(result.value) - 1) :
              result.value[k].score >= result.value[k + 1].score
        /\ \A k \in 1..Len(result.value) :
              result.value[1].score >= result.value[k].score

\* Three players in ascending order of score came back in descending order.
C2_Witness ==
    /\ Compared
    /\ Len(players) = 3
    /\ players[1].hand = WheelHand
    /\ players[2].hand = Hand1
    /\ players[3].hand = RoyalHand
    /\ ~IsThrow(result)
    /\ result.value[1].player = players[3]
    /\ result.value[2].player = players[2]
    /\ result.value[3].player = players[1]

\* C3: results of equal score keep the relative order of their players in
\* the input, and every rearrangement of the input gives the same sequence
\* of (category, score) pairs and the same players for every score.
C3_Stable ==
    Compared /\ Len(players) >= 2 /\ AllHaveHands(players) =>
        /\ ~IsThrow(result)
        /\ \A k, l \in 1..Len(result.value) :
              k < l /\ result.value[k].score = result.value[l].score
                 => result.value[k].player.id < result.value[l].player.id
        /\ \A qs \in Permutations(players) :
              LET other == CompareHandsFn(qs)
              IN  /\ ~IsThrow(other)
                  /\ Pairs(other.value) = Pairs(result.value)
                  /\ \A k \in 1..Len(result.value) :
                        PlayersOfScore(other.value, result.value[k].score)
                            = PlayersOfScore(result.value, result.value[k].score)

\* Two hands of score 217 after a lower hand: the sort has moved both in
\* front of it and kept their order.
C3_Witness ==
    /\ Compared
    /\ Len(players) = 3
    /\ players[1].hand = WheelHand
    /\ players[2].hand = Hand3
    /\ players[3].hand = Hand1
    /\ ~IsThrow(result)
    /\ result.value[1].player = players[2]
    /\ result.value[2].player = players[3]
    /\ result.value[1].score = result.value[2].score

\* C4: compareHands on two or more players of which one has no hand throws
\* the InternalServerErrorException of rankHand and returns nothing; rankHand
\* on a player without a hand throws it before it builds a tally.
C4_NullHandThrows ==
    /\ Compared /\ Len(players) >= 2 /\ ~AllHaveHands(players) =>
          result = Throw(InternalServerErrorException)
    /\ fn = "rankHand" /\ pc = "return" /\ IsNull(players[1].hand) =>
          /\ result = Throw(InternalServerErrorException)
          /\ IsNull(locals)

\* The player without a hand is the last of three.
C4_Witness ==
    /\ Compared
    /\ Len(players) = 3
    /\ ~IsNull(players[1].hand)
    /\ ~IsNull(players[2].hand)
    /\ IsNull(players[3].hand)
    /\ IsThrow(result)

====
